---- MODULE Spec2Model ----
(***************************************************************************)
(* The authentication flow of desileetcode's backend: the register, login, *)
(* logout and check handlers (controllers/auth.controller.js) and the      *)
(* gating middleware authMiddleware, over the user table of the store, the *)
(* jsonwebtoken codec, the bcryptjs hasher and the "jwt" session cookie.   *)
(*                                                                         *)
(* Every handler is an async function: it runs atomically from one await   *)
(* to the next, and requests interleave at those awaits.  One action of    *)
(* this module is one such atomic stretch of one request.                  *)
(*                                                                         *)
(* login and the gate read the store once and never write it, so each is   *)
(* atomic with respect to the store; register reads and then writes, so    *)
(* register requests are the ones whose overlap matters.                   *)
(***************************************************************************)
EXTENDS Integers, Sequences, FiniteSets, TLC

(***************************************************************************)
(* Bounds of the model.                                                    *)
(***************************************************************************)
\* requests that can be in flight at the same time
MaxReq == 2
\* identities the store creates in one run (ids are 1..MaxIds, never reused)
MaxIds == 2

Slots == 1..MaxReq

(***************************************************************************)
(* Inputs: what request bodies and the environment are drawn from.         *)
(***************************************************************************)
Emails == {"a@x.com", "b@x.com"}
Passwords == {"pw1", "pw2"}
Names == {"Ann"}
\* a role field a client may put in the body of a register request, or leave out
BodyRoles == {"undefined", "ADMIN"}
\* the salts bcrypt may draw for one hash
Salts == {"saltA"}
\* values the process environment can hold; "undefined" is an unset variable
Undefined == "undefined"
SecretValues == {"s3cret", Undefined}
NodeEnvValues == {"development", "production"}
\* a signing key that is not the server's
AttackerKey == "guessed"
\* how a store call can fail for reasons of its own (connectivity)
StoreFaults == {"store unavailable"}
\* the error of a create that breaks the unique constraint on email
UniqueViolation == "unique constraint failed"
\* the error of jwt.sign without a key
NoSigningKey == "secretOrPrivateKey must have a value"

(***************************************************************************)
(* Program constants.                                                      *)
(***************************************************************************)
\* bcrypt.hash(password, 12)
SaltRounds == 12
\* expiresIn: "7d", in days
ExpiresInDays == 7
\* maxAge: 1000 * 60 * 60 * 24 * 7, in milliseconds
MaxAgeMs == 604800000
\* the name of the session cookie
CookieName == "jwt"
\* a cookie name the handlers do not read
OtherCookieName == "token"

\* The instants (in days) at which the clock is observed: the start, the last
\* day a token signed at the start is valid, and the day it expires.
TimePoints == {0, ExpiresInDays - 1, ExpiresInDays}

VARIABLES
    JWT_SECRET,   \* process.env.JWT_SECRET
    NODE_ENV,     \* process.env.NODE_ENV
    listening,    \* app.listen has been called
    users,        \* the rows of the store's user table
    nextId,       \* the id the store gives to the next created row
    now,          \* the clock, in days
    jar,          \* the browser's cookie jar: the session tokens it holds (0 or 1)
    kept,         \* a copy of a session token kept outside the jar (0 or 1)
    registered,   \* log of the 201 responses of register, with the secret used
    rq            \* the requests in flight, one per slot

vars == <<JWT_SECRET, NODE_ENV, listening, users, nextId, now, jar, kept, registered, rq>>

(***************************************************************************)
(* bcryptjs.  A hash carries its cost and its salt; compare re-hashes the  *)
(* candidate with the salt and cost stored in the hash.                    *)
(***************************************************************************)
bcrypt_hash(password, rounds, salt) ==
    [alg |-> "bcrypt", rounds |-> rounds, salt |-> salt, digest |-> <<password, salt, rounds>>]

bcrypt_compare(password, hashed) ==
    bcrypt_hash(password, hashed.rounds, hashed.salt) = hashed

(***************************************************************************)
(* jsonwebtoken.  A token is its payload and a signature over the payload  *)
(* under a key.  sign and verify throw when the key is undefined; a thrown *)
(* call is the empty set, a returned value the singleton of it.            *)
(***************************************************************************)
Signature(payload, key) == [over |-> payload, key |-> key]

jwt_sign(id, secret, t) ==
    IF secret = Undefined THEN {}
    ELSE LET payload == [id |-> id, iat |-> t, exp |-> t + ExpiresInDays]
         IN  {[payload |-> payload, sig |-> Signature(payload, secret)]}

\* jwt_verify with the expiry check left out (verify with ignoreExpiration)
jwt_verify_ignoreExpiration(token, secret, t) ==
    IF secret = Undefined THEN {}
    ELSE IF token.sig # Signature(token.payload, secret) THEN {}
    ELSE {token.payload}

jwt_verify(token, secret, t) ==
    IF secret = Undefined THEN {}
    ELSE IF token.sig # Signature(token.payload, secret) THEN {}
    ELSE IF t >= token.payload.exp THEN {}
    ELSE {token.payload}

\* a token whose payload was altered after signing (the signature is the old one)
Tamper(token, id) == [token EXCEPT !.payload.id = id]
\* a token signed by someone who does not hold the server's key
Forge(id, t) ==
    LET payload == [id |-> id, iat |-> t, exp |-> t + ExpiresInDays]
    IN  [payload |-> payload, sig |-> Signature(payload, AttackerKey)]

(***************************************************************************)
(* The store (db.user).  findUnique returns the set of matching rows, 0 or *)
(* 1 of them; create returns the new row.                                  *)
(***************************************************************************)
findUniqueByEmail(email) == {u \in users : u.email = email}

\* a lookup without the select: the whole row
Select_wholeRow(u) == u

\* select: {id, image, name, email, role}
Select(u) == [id |-> u.id, image |-> u.image, name |-> u.name, email |-> u.email, role |-> u.role]

findUniqueById(id) == {Select(u) : u \in {v \in users : v.id = id}}

\* the row create builds from data: the store generates the id, image is unset
NewRow(data) ==
    [id |-> nextId, email |-> data.email, password |-> data.password,
     name |-> data.name, role |-> data.role, image |-> "null"]

\* the unique constraint on email: create is rejected when the email is taken
CreateRejected(data) == \E u \in users : u.email = data.email

(***************************************************************************)
(* The response object and the session cookie.                             *)
(***************************************************************************)
NoBody == [none |-> TRUE]
EmptyRes == [status |-> 0, sent |-> 0, body |-> NoBody, cookies |-> {}, cleared |-> {}]

\* res.status(code).json(body)
Json(res, code, body) == [res EXCEPT !.status = code, !.body = body, !.sent = @ + 1]

\* the options of register's res.cookie
SetCookieOptions ==
    [httpOnly |-> TRUE, sameSite |-> "strict", secure |-> (NODE_ENV # "development"),
     maxAge |-> MaxAgeMs]

\* the options of login's res.cookie
LoginCookieOptions ==
    [httpOnly |-> TRUE, sameSite |-> "strict", secure |-> (NODE_ENV # "development"),
     maxAge |-> MaxAgeMs]

\* clearCookie options that always ask for a secure cookie
ClearCookieOptions_alwaysSecure ==
    [httpOnly |-> TRUE, sameSite |-> "strict", secure |-> TRUE]

ClearCookieOptions ==
    [httpOnly |-> TRUE, sameSite |-> "strict", secure |-> (NODE_ENV # "development")]

\* register's res.cookie("jwt", token, {...})
Cookie(res, token) ==
    [res EXCEPT !.cookies = @ \cup {[name |-> CookieName, value |-> token, options |-> SetCookieOptions]}]

\* login's res.cookie("jwt", token, {...})
LoginCookie(res, token) ==
    [res EXCEPT !.cookies = @ \cup {[name |-> CookieName, value |-> token, options |-> LoginCookieOptions]}]

\* res.clearCookie("jwt", {...})
ClearCookie(res) ==
    [res EXCEPT !.cleared = @ \cup {[name |-> CookieName, options |-> ClearCookieOptions]}]

\* the user object of the 201 and 200 bodies
UserView(u) == [id |-> u.id, email |-> u.email, name |-> u.name, role |-> u.role, image |-> u.image]

(***************************************************************************)
(* A request: the handler's position, its inputs, its locals, and what it  *)
(* has done to req and res.  calls lists the library and store calls made, *)
(* error holds what a catch block caught, uncaught says that an exception  *)
(* left the handler.                                                       *)
(***************************************************************************)
EmptyBody == [email |-> "", password |-> "", name |-> "", role |-> "undefined"]

IdleReq ==
    [kind |-> "none", pc |-> "idle", body |-> EmptyBody, cookies |-> {},
     found |-> {}, hashedPassword |-> {}, decoded |-> {}, reqUser |-> {},
     nextCalled |-> 0, res |-> EmptyRes, calls |-> <<>>, error |-> {}, uncaught |-> FALSE]

Init ==
    /\ JWT_SECRET \in SecretValues
    /\ NODE_ENV \in NodeEnvValues
    /\ listening = FALSE
    /\ users = {}
    /\ nextId = 1
    /\ now = 0
    /\ jar = {}
    /\ kept = {}
    /\ registered = {}
    /\ rq = [s \in Slots |-> IdleReq]

(***************************************************************************)
(* index.js: the server starts listening; nothing is checked before.       *)
(***************************************************************************)
listen ==
    /\ ~listening
    /\ listening' = TRUE
    /\ UNCHANGED <<JWT_SECRET, NODE_ENV, users, nextId, now, jar, kept, registered, rq>>

(***************************************************************************)
(* Arrival of requests.  A register request is admitted only while the     *)
(* store can still give it an id within MaxIds.                            *)
(***************************************************************************)
Creating == {t \in Slots : rq[t].kind = "register" /\ rq[t].pc # "done"}

Arrive(s, kind, pc, body, cookies, firstCall) ==
    /\ listening
    /\ rq[s].pc = "idle"
    /\ rq' = [rq EXCEPT ![s] = [IdleReq EXCEPT !.kind = kind, !.pc = pc, !.body = body,
                                               !.cookies = cookies, !.calls = firstCall]]

(***************************************************************************)
(* register (auth.controller.js lines 5-59).                               *)
(***************************************************************************)
\* a catch block that reports the failed creation as a success
register_catch_201(r, error) ==
    [r EXCEPT !.pc = "done", !.error = {error},
              !.res = Json(@, 201, [success |-> TRUE, message |-> "User created successfully"])]

\* catch (error) { res.status(500).json({error: "Error creating user"}) }
register_catch(r, error) ==
    [r EXCEPT !.pc = "done", !.error = {error},
              !.res = Json(@, 500, [error |-> "Error creating user"])]

\* register without the test of existingUser
register_afterFind_noCheck(r, existingUser) ==
    [r EXCEPT !.pc = "register_hash", !.calls = Append(@, "hash")]

\* lines 17-23: after findUnique returned existingUser, up to the call of bcrypt.hash
register_afterFind(r, existingUser) ==
    IF existingUser # {}
    THEN [r EXCEPT !.found = existingUser, !.pc = "done",
                   !.res = Json(@, 400, [error |-> "User already exists"])]
    ELSE [r EXCEPT !.pc = "register_hash", !.calls = Append(@, "hash")]

\* a register that takes the role from the request body when the body gives one
register_data_roleFromBody(r) ==
    [email |-> r.body.email, name |-> r.body.name,
     role |-> IF r.body.role = "undefined" THEN "USER" ELSE r.body.role,
     password |-> CHOOSE h \in r.hashedPassword : TRUE]

\* the data handed to db.user.create: email, name and password of the body
\* (line 6 reads nothing else of it), role: UserRole.USER
register_data(r) ==
    [email |-> r.body.email, name |-> r.body.name, role |-> "USER",
     password |-> CHOOSE h \in r.hashedPassword : TRUE]

\* lines 33-52: after create returned newUser: sign, set the cookie, respond 201
register_afterCreate(r, newUser) ==
    LET token == jwt_sign(newUser.id, JWT_SECRET, now)
        signed == [r EXCEPT !.calls = Append(@, "sign")]
    IN  IF token = {} THEN register_catch(signed, NoSigningKey)
        ELSE [signed EXCEPT !.pc = "done",
                !.res = Json(Cookie(@, CHOOSE t \in token : TRUE), 201,
                             [success |-> TRUE, message |-> "User created successfully",
                              user |-> UserView(newUser)])]

\* register hashing the name where it should hash the password
register_afterHash_wrongField(r, hashedPassword) ==
    [r EXCEPT !.hashedPassword = {[hashedPassword EXCEPT !.digest = <<r.body.name, hashedPassword.salt, hashedPassword.rounds>>]},
              !.pc = "register_create", !.calls = Append(@, "create")]

\* lines 23-25: after bcrypt.hash resolved hashedPassword, up to the call of create
register_afterHash(r, hashedPassword) ==
    [r EXCEPT !.hashedPassword = {hashedPassword}, !.pc = "register_create",
              !.calls = Append(@, "create")]

\* the request arrives; the handler runs to its first await, db.user.findUnique.
\* (A role field is tried in the body of a request that arrives while no other
\* is in flight: the handler never reads it, so it plays no part in an overlap.)
register_start(s) ==
    /\ nextId + Cardinality(Creating) <= MaxIds
    /\ \E email \in Emails, password \in Passwords, name \in Names,
          role \in IF \A t \in Slots : rq[t].pc = "idle" THEN BodyRoles ELSE {"undefined"} :
          Arrive(s, "register", "register_findUnique",
                 [email |-> email, password |-> password, name |-> name, role |-> role],
                 {}, <<"findUnique">>)
    /\ UNCHANGED <<JWT_SECRET, NODE_ENV, listening, users, nextId, now, jar, kept, registered>>

\* findUnique({where: {email}}) returns or throws; the handler runs to bcrypt.hash
register_findUnique(s) ==
    /\ rq[s].pc = "register_findUnique"
    /\ \E fault \in {"none"} \cup StoreFaults :
          rq' = [rq EXCEPT ![s] = IF fault = "none"
                                  THEN register_afterFind(@, findUniqueByEmail(@.body.email))
                                  ELSE register_catch(@, fault)]
    /\ UNCHANGED <<JWT_SECRET, NODE_ENV, listening, users, nextId, now, jar, kept, registered>>

\* bcrypt.hash resolves; the handler runs to db.user.create
register_hash(s) ==
    /\ rq[s].pc = "register_hash"
    /\ \E salt \in Salts :
          rq' = [rq EXCEPT ![s] = register_afterHash(@, bcrypt_hash(@.body.password, SaltRounds, salt))]
    /\ UNCHANGED <<JWT_SECRET, NODE_ENV, listening, users, nextId, now, jar, kept, registered>>

\* create returns the new row, or throws (store failure, or the email is taken);
\* the handler runs to its end
register_create(s) ==
    /\ rq[s].pc = "register_create"
    /\ \E fault \in {"none"} \cup StoreFaults :
          LET r == rq[s]
              data == register_data(r)
              newUser == NewRow(data)
              after == register_afterCreate(r, newUser)
          IN  IF fault = "none" /\ ~CreateRejected(data)
              THEN /\ users' = users \cup {newUser}
                   /\ nextId' = nextId + 1
                   /\ rq' = [rq EXCEPT ![s] = after]
                   /\ registered' = IF after.res.status = 201
                                    THEN registered \cup {[email |-> r.body.email,
                                                           password |-> r.body.password,
                                                           user |-> after.res.body.user]}
                                    ELSE registered
              ELSE /\ rq' = [rq EXCEPT ![s] = register_catch(r, IF fault = "none" THEN UniqueViolation ELSE fault)]
                   /\ UNCHANGED <<users, nextId, registered>>
    /\ UNCHANGED <<JWT_SECRET, NODE_ENV, listening, now, jar, kept>>

(***************************************************************************)
(* login (auth.controller.js lines 61-114).                                *)
(***************************************************************************)
\* catch (error) { res.status(500).json({error: "Error in logging in User"}) }
login_catch(r, error) ==
    [r EXCEPT !.pc = "done", !.error = {error},
              !.res = Json(@, 500, [error |-> "Error in logging in User"])]

\* a login that opens a guest session (id 0) when the email is unknown
login_afterFind_guestSession(r, user) ==
    LET token == jwt_sign(0, JWT_SECRET, now)
    IN  IF user = {} /\ token # {}
        THEN [r EXCEPT !.pc = "done",
                       !.res = Json(LoginCookie(@, CHOOSE t \in token : TRUE), 401,
                                    [error |-> "User not found"])]
        ELSE IF user = {}
        THEN [r EXCEPT !.pc = "done", !.res = Json(@, 401, [error |-> "User not found"])]
        ELSE [r EXCEPT !.found = user, !.pc = "login_compare", !.calls = Append(@, "compare")]

\* lines 70-75: after findUnique returned user, up to the call of bcrypt.compare
login_afterFind(r, user) ==
    IF user = {}
    THEN [r EXCEPT !.pc = "done", !.res = Json(@, 401, [error |-> "User not found"])]
    ELSE [r EXCEPT !.found = user, !.pc = "login_compare", !.calls = Append(@, "compare")]

\* login without the test of isMatch
login_afterCompare_noCheck(r, isMatch) ==
    LET user == CHOOSE u \in r.found : TRUE
        token == jwt_sign(user.id, JWT_SECRET, now)
        signed == [r EXCEPT !.calls = Append(@, "sign")]
    IN  IF token = {} THEN login_catch(signed, NoSigningKey)
        ELSE [signed EXCEPT !.pc = "done",
                !.res = Json(LoginCookie(@, CHOOSE t \in token : TRUE), 200,
                             [success |-> TRUE, message |-> "User logged in successfully",
                              user |-> UserView(user)])]

\* lines 76-107: after compare resolved isMatch: 401, or sign, set the cookie, 200
login_afterCompare(r, isMatch) ==
    LET user == CHOOSE u \in r.found : TRUE
        token == jwt_sign(user.id, JWT_SECRET, now)
        signed == [r EXCEPT !.calls = Append(@, "sign")]
    IN  IF ~isMatch
        THEN [r EXCEPT !.pc = "done", !.res = Json(@, 401, [error |-> "Invalid credentials"])]
        ELSE IF token = {} THEN login_catch(signed, NoSigningKey)
        ELSE [signed EXCEPT !.pc = "done",
                !.res = Json(LoginCookie(@, CHOOSE t \in token : TRUE), 200,
                             [success |-> TRUE, message |-> "User logged in successfully",
                              user |-> UserView(user)])]

login_start(s) ==
    /\ \E email \in Emails, password \in Passwords :
          Arrive(s, "login", "login_findUnique",
                 [email |-> email, password |-> password, name |-> "", role |-> "undefined"],
                 {}, <<"findUnique">>)
    /\ UNCHANGED <<JWT_SECRET, NODE_ENV, listening, users, nextId, now, jar, kept, registered>>

login_findUnique(s) ==
    /\ rq[s].pc = "login_findUnique"
    /\ \E fault \in {"none"} \cup StoreFaults :
          rq' = [rq EXCEPT ![s] = IF fault = "none"
                                  THEN login_afterFind(@, findUniqueByEmail(@.body.email))
                                  ELSE login_catch(@, fault)]
    /\ UNCHANGED <<JWT_SECRET, NODE_ENV, listening, users, nextId, now, jar, kept, registered>>

\* a login that stamps the row it found
login_compare_touchRow(s) ==
    /\ rq[s].pc = "login_compare"
    /\ rq' = [rq EXCEPT ![s] = login_afterCompare(@, bcrypt_compare(@.body.password,
                                                   (CHOOSE u \in @.found : TRUE).password))]
    /\ users' = {IF u \in rq[s].found THEN [u EXCEPT !.image = "seen"] ELSE u : u \in users}
    /\ UNCHANGED <<JWT_SECRET, NODE_ENV, listening, nextId, now, jar, kept, registered>>

\* bcrypt.compare resolves; the handler runs to its end
login_compare(s) ==
    /\ rq[s].pc = "login_compare"
    /\ rq' = [rq EXCEPT ![s] = login_afterCompare(@, bcrypt_compare(@.body.password,
                                                   (CHOOSE u \in @.found : TRUE).password))]
    /\ UNCHANGED <<JWT_SECRET, NODE_ENV, listening, users, nextId, now, jar, kept, registered>>

(***************************************************************************)
(* logout (auth.controller.js lines 116-133): no await, one step.          *)
(***************************************************************************)
\* a logout that refuses a request without a session cookie
logout_respond_needsCookie(r) ==
    IF r.cookies = {}
    THEN [r EXCEPT !.pc = "done", !.res = Json(@, 401, [error |-> "Not logged in"])]
    ELSE [r EXCEPT !.pc = "done",
                   !.res = Json(ClearCookie(@), 200,
                                [success |-> TRUE, message |-> "User logged out successfully"])]

\* lines 117-126: clear the cookie, respond 200
logout_respond(r) ==
    [r EXCEPT !.pc = "done",
              !.res = Json(ClearCookie(@), 200,
                           [success |-> TRUE, message |-> "User logged out successfully"])]

\* what a browser sends: the cookie of its jar, if any
JarCookies == {[name |-> CookieName, value |-> t] : t \in jar}

logout(s) ==
    /\ listening
    /\ rq[s].pc = "idle"
    /\ \E cookies \in {{}, JarCookies} :
          rq' = [rq EXCEPT ![s] = logout_respond([IdleReq EXCEPT !.kind = "logout", !.cookies = cookies])]
    /\ UNCHANGED <<JWT_SECRET, NODE_ENV, listening, users, nextId, now, jar, kept, registered>>

(***************************************************************************)
(* check (auth.controller.js lines 135-148), the operation the gate wraps. *)
(***************************************************************************)
\* a check that answers with a part of req.user
check_idAndEmail(r) ==
    [r EXCEPT !.pc = "done",
              !.res = Json(@, 200, [success |-> TRUE, message |-> "user auth successfull",
                                    user |-> LET u == CHOOSE u \in r.reqUser : TRUE
                                             IN  [id |-> u.id, email |-> u.email]])]

\* lines 137-141: respond 200 with req.user
check(r) ==
    [r EXCEPT !.pc = "done",
              !.res = Json(@, 200, [success |-> TRUE, message |-> "user auth successfull",
                                    user |-> CHOOSE u \in r.reqUser : TRUE])]

(***************************************************************************)
(* authMiddleware, in front of check.                                      *)
(***************************************************************************)
\* the gate reading a cookie of another name than the one register and login set
cookies_jwt_otherName(cookies) == {c.value : c \in {d \in cookies : d.name = OtherCookieName}}

\* req.cookies.jwt: the values of the cookies named "jwt" (none: undefined)
cookies_jwt(cookies) == {c.value : c \in {d \in cookies : d.name = CookieName}}

\* the gate without its outer catch: the exception leaves the middleware
authMiddleware_catch_rethrow(r, error) ==
    [r EXCEPT !.pc = "done", !.error = {error}, !.uncaught = TRUE]

\* the outer catch: res.status(500).json({message: "Error auththenticating user"})
authMiddleware_catch(r, error) ==
    [r EXCEPT !.pc = "done", !.error = {error},
              !.res = Json(@, 500, [message |-> "Error auththenticating user"])]

\* the gate reading the payload without verifying it (jwt.decode for jwt.verify)
authMiddleware_toFind_decodeOnly(r) ==
    LET token == cookies_jwt(r.cookies)
        decoded == {t.payload : t \in token}
        verified == [r EXCEPT !.calls = Append(@, "verify")]
    IN  IF token = {}
        THEN [r EXCEPT !.pc = "done",
                       !.res = Json(@, 401, [message |-> "Unauthorised - No token provided"])]
        ELSE [verified EXCEPT !.decoded = decoded, !.pc = "authMiddleware_findUnique",
                              !.calls = Append(@, "findUnique")]

\* a gate that accepts a token only while the session it was issued to is open
authMiddleware_toFind_openSessionOnly(r) ==
    LET token == cookies_jwt(r.cookies)
        decoded == IF token \subseteq jar
                   THEN jwt_verify(CHOOSE t \in token : TRUE, JWT_SECRET, now)
                   ELSE {}
        verified == [r EXCEPT !.calls = Append(@, "verify")]
    IN  IF token = {}
        THEN [r EXCEPT !.pc = "done",
                       !.res = Json(@, 401, [message |-> "Unauthorised - No token provided"])]
        ELSE IF decoded = {}
        THEN [verified EXCEPT !.pc = "done",
                              !.res = Json(@, 401, [message |-> "Unauthorised - Invalid Token"])]
        ELSE [verified EXCEPT !.decoded = decoded, !.pc = "authMiddleware_findUnique",
                              !.calls = Append(@, "findUnique")]

\* lines 5-19: from the start to the call of db.user.findUnique
authMiddleware_toFind(r) ==
    LET token == cookies_jwt(r.cookies)
        decoded == jwt_verify(CHOOSE t \in token : TRUE, JWT_SECRET, now)
        verified == [r EXCEPT !.calls = Append(@, "verify")]
    IN  IF token = {}
        THEN [r EXCEPT !.pc = "done",
                       !.res = Json(@, 401, [message |-> "Unauthorised - No token provided"])]
        ELSE IF decoded = {}
        THEN [verified EXCEPT !.pc = "done",
                              !.res = Json(@, 401, [message |-> "Unauthorised - Invalid Token"])]
        ELSE [verified EXCEPT !.decoded = decoded, !.pc = "authMiddleware_findUnique",
                              !.calls = Append(@, "findUnique")]

\* a gate that goes on to its not-found response after next() has returned
authMiddleware_next_noReturn(r, user) ==
    [check([r EXCEPT !.reqUser = user, !.nextCalled = @ + 1])
        EXCEPT !.res = Json(@, 404, [message |-> "User not found"])]

\* req.user = user; next(): the wrapped operation runs inside the call
authMiddleware_next(r, user) ==
    check([r EXCEPT !.reqUser = user, !.nextCalled = @ + 1])

\* the gate answering a missing identity with 401 instead of 404
authMiddleware_afterFind_401(r, user) ==
    IF user = {}
    THEN [r EXCEPT !.pc = "done", !.res = Json(@, 401, [message |-> "User not found"])]
    ELSE authMiddleware_next(r, user)

\* lines 32-38: after findUnique returned user
authMiddleware_afterFind(r, user) ==
    IF user = {}
    THEN [r EXCEPT !.pc = "done", !.res = Json(@, 404, [message |-> "User not found"])]
    ELSE authMiddleware_next(r, user)

\* the tokens a client can hold, and what can be made of them without the key
Held == jar \cup kept
Presentable ==
    Held \cup {Tamper(t, i) : t \in Held, i \in 1..MaxIds}
         \cup {Forge(i, now) : i \in 1..MaxIds}
CookieHeaders ==
    {{}} \cup {{[name |-> CookieName, value |-> t]} : t \in Presentable}
         \cup {{[name |-> OtherCookieName, value |-> t]} : t \in Held}

\* a request for the gated route arrives; the gate runs to its first await
authMiddleware_start(s) ==
    /\ listening
    /\ rq[s].pc = "idle"
    /\ \E cookies \in CookieHeaders :
          rq' = [rq EXCEPT ![s] = authMiddleware_toFind([IdleReq EXCEPT !.kind = "check", !.cookies = cookies])]
    /\ UNCHANGED <<JWT_SECRET, NODE_ENV, listening, users, nextId, now, jar, kept, registered>>

\* findUnique({where: {id}, select}) returns or throws; the gate runs to its end
authMiddleware_findUnique(s) ==
    /\ rq[s].pc = "authMiddleware_findUnique"
    /\ \E fault \in {"none"} \cup StoreFaults :
          rq' = [rq EXCEPT ![s] = IF fault = "none"
                                  THEN authMiddleware_afterFind(@, findUniqueById((CHOOSE d \in @.decoded : TRUE).id))
                                  ELSE authMiddleware_catch(@, fault)]
    /\ UNCHANGED <<JWT_SECRET, NODE_ENV, listening, users, nextId, now, jar, kept, registered>>

(***************************************************************************)
(* The environment: the client, the clock, and whoever else writes the     *)
(* user table.                                                             *)
(***************************************************************************)
\* the browser takes the response: a Set-Cookie replaces the cookie of that name,
\* a cleared cookie is dropped; the slot is free again
deliver(s) ==
    /\ rq[s].pc = "done"
    /\ jar' = IF rq[s].res.cookies # {} THEN {c.value : c \in rq[s].res.cookies}
              ELSE IF \E c \in rq[s].res.cleared : c.name = CookieName THEN {}
              ELSE jar
    /\ rq' = [rq EXCEPT ![s] = IdleReq]
    /\ UNCHANGED <<JWT_SECRET, NODE_ENV, listening, users, nextId, now, kept, registered>>

\* a copy of the jar's token is put aside (by the client, or by a thief)
keep ==
    /\ jar # {}
    /\ kept # jar
    /\ kept' = jar
    /\ UNCHANGED <<JWT_SECRET, NODE_ENV, listening, users, nextId, now, jar, registered, rq>>

\* time passes
tick ==
    /\ \E t \in TimePoints : t > now /\ now' = t
    /\ UNCHANGED <<JWT_SECRET, NODE_ENV, listening, users, nextId, jar, kept, registered, rq>>

\* a row is removed from the user table by something outside these handlers
remove ==
    /\ \E u \in users : users' = users \ {u}
    /\ UNCHANGED <<JWT_SECRET, NODE_ENV, listening, nextId, now, jar, kept, registered, rq>>

\* no request is in flight
Quiet == \A t \in Slots : rq[t].pc = "idle"
\* the requests in flight, if any, are all register requests
OnlyRegisters == \A t \in Slots : rq[t].kind \in {"none", "register"}
\* s is the lowest free slot: the one an arriving request is given
LowestIdle(s) == rq[s].pc = "idle" /\ \A t \in Slots : t < s => rq[t].pc # "idle"
\* the slot of a client that sends one request at a time
First == CHOOSE s \in Slots : \A t \in Slots : s <= t

(***************************************************************************)
(* Spec: a client that sends one request at a time, with the clock, the    *)
(* cookie jar and the other writers of the user table running between the  *)
(* awaits of the handler.                                                  *)
(***************************************************************************)
Next ==
    \/ listen
    \/ Quiet /\ register_start(First)
    \/ \E s \in Slots : register_findUnique(s)
    \/ \E s \in Slots : register_hash(s)
    \/ \E s \in Slots : register_create(s)
    \/ Quiet /\ login_start(First)
    \/ \E s \in Slots : login_findUnique(s)
    \/ \E s \in Slots : login_compare(s)
    \/ Quiet /\ logout(First)
    \/ Quiet /\ authMiddleware_start(First)
    \/ \E s \in Slots : authMiddleware_findUnique(s)
    \/ \E s \in Slots : deliver(s)
    \/ keep
    \/ tick
    \/ remove

Spec == Init /\ [][Next]_vars

(***************************************************************************)
(* SpecConcurrent: register requests arrive while other register requests  *)
(* are in flight and interleave with them at their awaits; the clock       *)
(* stands still and nothing else writes the user table.                    *)
(***************************************************************************)
NextConcurrent ==
    \/ listen
    \/ \E s \in Slots : OnlyRegisters /\ LowestIdle(s) /\ register_start(s)
    \/ \E s \in Slots : register_findUnique(s)
    \/ \E s \in Slots : register_hash(s)
    \/ \E s \in Slots : register_create(s)
    \/ Quiet /\ login_start(First)
    \/ \E s \in Slots : login_findUnique(s)
    \/ \E s \in Slots : login_compare(s)
    \/ Quiet /\ logout(First)
    \/ Quiet /\ authMiddleware_start(First)
    \/ \E s \in Slots : authMiddleware_findUnique(s)
    \/ \E s \in Slots : deliver(s)

SpecConcurrent == Init /\ [][NextConcurrent]_vars

(***************************************************************************)
(* SpecLive: the client that sends one request at a time, the clock and    *)
(* the other writers of the user table (no token is put aside), with every *)
(* pending call of a request in flight returning or throwing in the end:   *)
(* the store answers, bcrypt resolves.                                     *)
(***************************************************************************)
NextLive ==
    \/ listen
    \/ Quiet /\ register_start(First)
    \/ \E s \in Slots : register_findUnique(s)
    \/ \E s \in Slots : register_hash(s)
    \/ \E s \in Slots : register_create(s)
    \/ Quiet /\ login_start(First)
    \/ \E s \in Slots : login_findUnique(s)
    \/ \E s \in Slots : login_compare(s)
    \/ Quiet /\ logout(First)
    \/ Quiet /\ authMiddleware_start(First)
    \/ \E s \in Slots : authMiddleware_findUnique(s)
    \/ \E s \in Slots : deliver(s)
    \/ tick
    \/ remove

CallsReturn ==
    \A s \in Slots :
        /\ WF_vars(register_findUnique(s))
        /\ WF_vars(register_hash(s))
        /\ WF_vars(register_create(s))
        /\ WF_vars(login_findUnique(s))
        /\ WF_vars(login_compare(s))
        /\ WF_vars(authMiddleware_findUnique(s))

SpecLive == Init /\ [][NextLive]_vars /\ CallsReturn

(***************************************************************************)
(* Vocabulary of the properties.                                           *)
(***************************************************************************)
\* what it is for a token to verify at this moment: the server holds a key, the
\* signature is the key's signature over the payload, and the expiry is ahead
Expired(t) == now >= t.payload.exp
BadSignature(t) == JWT_SECRET = Undefined \/ t.sig # Signature(t.payload, JWT_SECRET)
Verifies(t) == ~BadSignature(t) /\ ~Expired(t)

\* the identity the store holds under an id, as the gate's projection shows it
Identity(id) ==
    {[id |-> u.id, image |-> u.image, name |-> u.name, email |-> u.email, role |-> u.role] :
        u \in {v \in users : v.id = id}}

\* request s of the gate arrives in this step
GateArrives(s) == rq[s].pc = "idle" /\ rq'[s].kind = "check"
\* the store lookup of gate request s ends in this step
GateLookupEnds(s) == rq[s].pc = "authMiddleware_findUnique" /\ rq'[s] # rq[s]
\* the id the gate request s looks up
LookedUp(s) == (CHOOSE d \in rq[s].decoded : TRUE).id

Unauthorised(message) == Json(EmptyRes, 401, [message |-> message])

(***************************************************************************)
(* C1.  The gate calls next if and only if the session cookie carries a    *)
(* token, the token verifies (signature and expiry) and the store lookup   *)
(* by the token's id returns an identity; req.user is then exactly that    *)
(* identity; with a 401, 404 or 500 response next is never called.         *)
(***************************************************************************)
C1_Step(s) ==
    LET q == rq'[s]
        token == cookies_jwt(q.cookies)
    IN  /\ GateArrives(s) =>
              /\ q.nextCalled = 0
              /\ (token # {} /\ \A t \in token : Verifies(t))
                    <=> (q.pc = "authMiddleware_findUnique" /\ q.decoded = {t.payload : t \in token})
              /\ q.pc # "authMiddleware_findUnique" => (q.pc = "done" /\ q.res.status = 401)
        /\ GateLookupEnds(s) =>
              /\ q.pc = "done"
              /\ q.nextCalled = 1 <=> (Identity(LookedUp(s)) # {} /\ q.error = {})
              /\ q.nextCalled = 1 => (q.reqUser = Identity(LookedUp(s)) /\ q.res.status = 200)
              /\ q.nextCalled # 1 => (q.nextCalled = 0 /\ q.reqUser = {} /\ q.res.status \in {404, 500})
        /\ (q.kind = "check" /\ q.res.status \in {401, 404, 500}) => q.nextCalled = 0

C1_NextIffResolved == [][\A s \in Slots : C1_Step(s)]_vars

C1_Witness ==
    \E s \in Slots :
        /\ rq[s].kind = "check" /\ rq[s].pc = "done"
        /\ rq[s].nextCalled = 1 /\ rq[s].res.status = 200
        /\ rq[s].reqUser # {}

(***************************************************************************)
(* C2.  The gate works in strict order and stops at the first failure: no  *)
(* token gives 401 "no token provided" with no verification and no store   *)
(* lookup; an expired, tampered or otherwise invalid token gives 401       *)
(* "invalid token" with no store lookup, whatever the store holds.         *)
(***************************************************************************)
C2_Step(s) ==
    LET q == rq'[s]
        token == cookies_jwt(q.cookies)
    IN  /\ (GateArrives(s) /\ token = {}) =>
              /\ q.pc = "done"
              /\ q.res = Unauthorised("Unauthorised - No token provided")
              /\ q.calls = <<>>
        /\ (GateArrives(s) /\ \E t \in token : Expired(t) \/ BadSignature(t)) =>
              /\ q.pc = "done"
              /\ q.res = Unauthorised("Unauthorised - Invalid Token")
              /\ q.calls = <<"verify">>
        /\ q.kind = "check" => q.calls \in {<<>>, <<"verify">>, <<"verify", "findUnique">>}

C2_ShortCircuit == [][\A s \in Slots : C2_Step(s)]_vars

\* an expired token of the server's own is refused while its identity is in the store
C2_Witness ==
    \E s \in Slots : \E c \in rq[s].cookies :
        /\ rq[s].kind = "check" /\ rq[s].pc = "done"
        /\ c.name = CookieName /\ ~BadSignature(c.value) /\ Expired(c.value)
        /\ \E u \in users : u.id = c.value.payload.id
        /\ rq[s].res = Unauthorised("Unauthorised - Invalid Token")

(***************************************************************************)
(* C3.  A validly signed, unexpired token whose identity is no longer in   *)
(* the store is answered 404 "User not found" when the lookup returns: not *)
(* 401, and next is not called.                                            *)
(***************************************************************************)
C3_Step(s) ==
    LET q == rq'[s]
        token == cookies_jwt(q.cookies)
    IN  /\ (GateArrives(s) /\ token # {} /\ \A t \in token : Verifies(t)) =>
              (q.pc = "authMiddleware_findUnique" /\ q.res = EmptyRes)
        /\ (GateLookupEnds(s) /\ Identity(LookedUp(s)) = {}) =>
              /\ q.nextCalled = 0 /\ q.reqUser = {}
              /\ q.res.status # 401
              /\ q.error = {} => q.res = Json(EmptyRes, 404, [message |-> "User not found"])

C3_RemovedIsNotFound == [][\A s \in Slots : C3_Step(s)]_vars

\* the token was issued to an identity that register created and that is gone
C3_Witness ==
    \E s \in Slots : \E c \in rq[s].cookies :
        /\ rq[s].kind = "check" /\ rq[s].pc = "done"
        /\ c.name = CookieName /\ ~BadSignature(c.value)
        /\ \E g \in registered : g.user.id = c.value.payload.id
        /\ \A u \in users : u.id # c.value.payload.id
        /\ rq[s].res.status = 404

\* the store lookup of register request s ends in this step
RegisterLookupEnds(s) == rq[s].pc = "register_findUnique" /\ rq'[s] # rq[s]
\* the store create of register request s ends in this step
RegisterCreateEnds(s) == rq[s].pc = "register_create" /\ rq'[s] # rq[s]
\* the store lookup of login request s ends in this step
LoginLookupEnds(s) == rq[s].pc = "login_findUnique" /\ rq'[s] # rq[s]
\* the comparison of login request s ends in this step
LoginCompareEnds(s) == rq[s].pc = "login_compare" /\ rq'[s] # rq[s]
\* the email of request s is taken in the store
EmailTaken(s) == \E u \in users : u.email = rq[s].body.email

(***************************************************************************)
(* C4.  A register that responds 201 has created the identity it returns;  *)
(* a register for an email that is already in the store, once its lookup   *)
(* returns, responds 400 "User already exists", creates nothing, leaves    *)
(* the store as it is and sets no cookie.                                  *)
(***************************************************************************)
C4_Step(s) ==
    LET r == rq[s]
        q == rq'[s]
    IN  /\ (RegisterCreateEnds(s) /\ q.res.status = 201) =>
              \E row \in users' :
                  /\ row \notin users /\ users' = users \cup {row}
                  /\ row.email = r.body.email /\ row.name = r.body.name
                  /\ q.res.body.user.id = row.id /\ q.res.body.user.email = row.email
        /\ (RegisterLookupEnds(s) /\ EmailTaken(s) /\ q.error = {}) =>
              /\ q.pc = "done"
              /\ q.res = Json(EmptyRes, 400, [error |-> "User already exists"])
              /\ q.res.cookies = {}
              /\ users' = users /\ nextId' = nextId

C4_SecondRegisterConflicts == [][\A s \in Slots : C4_Step(s)]_vars

\* the second register is answered 400 while the identity of the first, which
\* was answered 201, is in the store
C4_Witness ==
    \E s \in Slots : \E g \in registered :
        /\ rq[s].kind = "register" /\ rq[s].pc = "done" /\ rq[s].res.status = 400
        /\ g.email = rq[s].body.email /\ g.password # rq[s].body.password
        /\ \E u \in users : u.id = g.user.id /\ u.email = g.email

(***************************************************************************)
(* C5.  Whatever the interleaving of register requests: the store never    *)
(* holds two identities with one email, because the later create is        *)
(* rejected; at most one request per email gets 201 and the cookie, and    *)
(* every other one gets a failure response (400 or 500).                   *)
(***************************************************************************)
C5_OneWinner ==
    /\ \A u, v \in users : u.email = v.email => u = v
    /\ \A g, h \in registered : g.email = h.email => g = h
    /\ \A s \in Slots :
          (rq[s].kind = "register" /\ rq[s].pc = "done") =>
              /\ rq[s].res.status \in {201, 400, 500}
              /\ rq[s].res.sent = 1
              /\ rq[s].res.cookies # {} <=> rq[s].res.status = 201
              /\ rq[s].res.status = 201 =>
                    \E g \in registered : g.email = rq[s].body.email /\ g.user = rq[s].res.body.user
              /\ UniqueViolation \in rq[s].error => rq[s].res.status = 500
    /\ \A s, t \in Slots :
          (/\ s # t
           /\ rq[s].kind = "register" /\ rq[s].pc = "done"
           /\ rq[t].kind = "register" /\ rq[t].pc = "done"
           /\ rq[s].body.email = rq[t].body.email)
          => ~(rq[s].res.status = 201 /\ rq[t].res.status = 201)

\* two requests raced past the lookup: one created, the other's create was rejected
C5_Witness ==
    \E s, t \in Slots :
        /\ s # t
        /\ rq[s].kind = "register" /\ rq[s].pc = "done" /\ rq[s].res.status = 201
        /\ rq[t].kind = "register" /\ rq[t].pc = "done" /\ rq[t].res.status = 500
        /\ rq[t].error = {UniqueViolation}
        /\ rq[s].body.email = rq[t].body.email

(***************************************************************************)
(* C6.  login with an email the store does not hold responds 401 "User not *)
(* found"; login with a stored email and a secret that is not the one      *)
(* behind the stored hash responds 401 "Invalid credentials"; in both      *)
(* cases no token is signed and no cookie is set.                          *)
(***************************************************************************)
\* the secret of request s is not the one the found row was hashed from
WrongSecret(s) ==
    \A u \in rq[s].found : \A salt \in Salts :
        u.password # bcrypt_hash(rq[s].body.password, SaltRounds, salt)

C6_Step(s) ==
    LET q == rq'[s]
    IN  /\ (LoginLookupEnds(s) /\ ~EmailTaken(s) /\ q.error = {}) =>
              /\ q.pc = "done"
              /\ q.res = Json(EmptyRes, 401, [error |-> "User not found"])
              /\ q.calls = <<"findUnique">>
        /\ (LoginCompareEnds(s) /\ WrongSecret(s)) =>
              /\ q.pc = "done"
              /\ q.res = Json(EmptyRes, 401, [error |-> "Invalid credentials"])
              /\ q.calls = <<"findUnique", "compare">>
        /\ (q.kind = "login" /\ q.res.status = 401) =>
              (q.res.cookies = {} /\ q.res.body.error \in {"User not found", "Invalid credentials"})

C6_LoginRefusals == [][\A s \in Slots : C6_Step(s)]_vars

\* the email was registered with another secret than the one presented
C6_Witness ==
    \E s \in Slots : \E g \in registered :
        /\ rq[s].kind = "login" /\ rq[s].pc = "done"
        /\ g.email = rq[s].body.email /\ g.password # rq[s].body.password
        /\ rq[s].found # {} /\ \A u \in rq[s].found : u.id = g.user.id
        /\ rq[s].res.body = [error |-> "Invalid credentials"]

(***************************************************************************)
(* C7.  Token round trip: the token register or login puts in the cookie   *)
(* carries the id of the user in that response; sent back unmodified under *)
(* the same cookie name before its expiry, it verifies, and while the      *)
(* identity is in the store the lookup resolves to the identity of that id.*)
(***************************************************************************)
\* the cookies a browser sends back: the jar's token under the name it was set with
SentBack(cookies) == \E t \in jar \cup kept : cookies = {[name |-> CookieName, value |-> t]}

C7_Step(s) ==
    LET r == rq[s]
        q == rq'[s]
    IN  /\ (q # r /\ q.res.cookies # {}) =>
              /\ q.kind \in {"register", "login"} /\ q.res.status \in {200, 201}
              /\ \A c \in q.res.cookies :
                    /\ q.res.cookies = {c}
                    /\ c.name = CookieName
                    /\ c.value.payload.iat = now /\ c.value.payload.exp = now + ExpiresInDays
                    /\ c.value.payload.id = q.res.body.user.id
                    /\ Verifies(c.value)
        /\ (GateArrives(s) /\ SentBack(q.cookies) /\ \A c \in q.cookies : ~Expired(c.value)) =>
              /\ q.pc = "authMiddleware_findUnique"
              /\ q.decoded = {c.value.payload : c \in q.cookies}
        /\ (GateLookupEnds(s) /\ SentBack(r.cookies) /\ q.error = {}
              /\ \E u \in users : u.id = LookedUp(s)) =>
              /\ q.nextCalled = 1 /\ q.res.status = 200
              /\ \A c \in r.cookies : q.res.body.user.id = c.value.payload.id
              /\ q.reqUser = Identity(q.res.body.user.id)

C7_TokenRoundTrip == [][\A s \in Slots : C7_Step(s)]_vars

\* the gate resolved the jar's token to the identity register had returned
C7_Witness ==
    \E s \in Slots : \E g \in registered :
        /\ rq[s].kind = "check" /\ rq[s].pc = "done" /\ rq[s].res.status = 200
        /\ rq[s].cookies = {[name |-> CookieName, value |-> t] : t \in jar}
        /\ jar # {}
        /\ rq[s].res.body.user.id = g.user.id
        /\ \A t \in jar : t.payload.id = g.user.id

(***************************************************************************)
(* C8.  Credential round trip: once register(email, secret, name) has      *)
(* responded 201, and while that identity is in the store, a login for the *)
(* email whose lookup returns finds that identity; with the same secret it *)
(* responds 200 with the user of the register response (id, email, name,   *)
(* role, image), with another secret it responds 401.                      *)
(***************************************************************************)
C8_Step(s) ==
    LET r == rq[s]
        q == rq'[s]
    IN  \A g \in registered :
          /\ (/\ LoginLookupEnds(s) /\ q.error = {}
              /\ g.email = r.body.email
              /\ \E u \in users : u.id = g.user.id) =>
                 (q.pc = "login_compare" /\ \A u \in q.found : u.id = g.user.id)
          /\ (/\ LoginCompareEnds(s)
              /\ g.email = r.body.email
              /\ \A u \in r.found : u.id = g.user.id) =>
                 /\ q.pc = "done"
                 /\ r.body.password = g.password =>
                       (q.res.status = 200 /\ q.res.body.user = g.user)
                 /\ r.body.password # g.password => q.res.status = 401

C8_CredentialRoundTrip == [][\A s \in Slots : C8_Step(s)]_vars

\* a login with the registered secret, after a register for another email came between
C8_Witness ==
    \E s \in Slots : \E g, h \in registered :
        /\ rq[s].kind = "login" /\ rq[s].pc = "done" /\ rq[s].res.status = 200
        /\ g.email = rq[s].body.email /\ g.password = rq[s].body.password
        /\ rq[s].res.body.user = g.user
        /\ h.user.id > g.user.id

(***************************************************************************)
(* C9.  No success response of register, login or check holds the hashed   *)
(* secret: the user of a 201 or 200 body has the fields id, email, name,   *)
(* role and image and no other, and so has the identity the gate attaches. *)
(***************************************************************************)
PublicFields == {"id", "email", "name", "role", "image"}

C9_NoHashOutward ==
    \A s \in Slots :
        /\ \A u \in rq[s].reqUser : DOMAIN u = PublicFields
        /\ (rq[s].kind \in {"register", "login", "check"} /\ rq[s].res.status \in {200, 201}) =>
              /\ DOMAIN rq[s].res.body = {"success", "message", "user"}
              /\ DOMAIN rq[s].res.body.user = PublicFields
              /\ \A c \in rq[s].res.cookies : DOMAIN c.value.payload = {"id", "iat", "exp"}

\* check has answered with the identity of a row that holds a hash
C9_Witness ==
    \E s \in Slots : \E u \in users :
        /\ rq[s].kind = "check" /\ rq[s].pc = "done" /\ rq[s].res.status = 200
        /\ rq[s].res.body.user.id = u.id
        /\ u.password.alg = "bcrypt"

(***************************************************************************)
(* C10.  A store call that fails in register, login or the gate (store     *)
(* unavailable, or a rejected create) is caught in the handler: the        *)
(* response is 500 with the handler's fixed message, no exception leaves   *)
(* the handler, no cookie is set and the gate does not call next.          *)
(***************************************************************************)
StoreErrors == StoreFaults \cup {UniqueViolation}

FixedMessage(kind) ==
    CASE kind = "register" -> [error |-> "Error creating user"]
      [] kind = "login" -> [error |-> "Error in logging in User"]
      [] kind = "check" -> [message |-> "Error auththenticating user"]

C10_StoreFailureIs500 ==
    \A s \in Slots :
        /\ ~rq[s].uncaught
        /\ rq[s].error \cap StoreErrors # {} =>
              /\ rq[s].kind \in {"register", "login", "check"}
              /\ rq[s].pc = "done"
              /\ rq[s].res = Json(EmptyRes, 500, FixedMessage(rq[s].kind))
              /\ rq[s].nextCalled = 0 /\ rq[s].reqUser = {}

\* a create that the store rejected was answered 500
C10_Witness ==
    \E s \in Slots :
        /\ rq[s].kind = "register" /\ rq[s].error = {UniqueViolation}
        /\ rq[s].res.status = 500 /\ rq[s].res.cookies = {}

\* logout request s arrives (and, having no await, ends) in this step
LogoutArrives(s) == rq[s].pc = "idle" /\ rq'[s].kind = "logout"

(***************************************************************************)
(* C11.  logout is unconditional and idempotent: whatever cookie the       *)
(* request carries (none, a valid token, an expired one) and whatever came *)
(* before it, it responds 200 with the success body, once, and it makes no *)
(* store call and leaves the store as it is.                               *)
(***************************************************************************)
C11_Step(s) ==
    LET q == rq'[s]
    IN  /\ LogoutArrives(s) =>
              /\ q.pc = "done"
              /\ q.res.status = 200 /\ q.res.sent = 1
              /\ q.res.body = [success |-> TRUE, message |-> "User logged out successfully"]
              /\ q.calls = <<>> /\ q.error = {} /\ ~q.uncaught
              /\ users' = users /\ nextId' = nextId
        /\ q.kind = "logout" => (q.res.status = 200 /\ q.calls = <<>>)

C11_LogoutUnconditional == [][\A s \in Slots : C11_Step(s)]_vars

\* a logout without a cookie is answered 200 after an earlier logout has emptied
\* the jar (a token that was in the jar survives only as the copy put aside)
C11_Witness ==
    \E s \in Slots :
        /\ rq[s].kind = "logout" /\ rq[s].pc = "done" /\ rq[s].cookies = {}
        /\ jar = {} /\ kept # {}
        /\ rq[s].res.status = 200

\* a logout carrying an expired token is answered 200
C11_WitnessExpired ==
    \E s \in Slots : \E c \in rq[s].cookies :
        /\ rq[s].kind = "logout" /\ rq[s].pc = "done"
        /\ Expired(c.value) /\ rq[s].res.status = 200

\* a logout has emptied the jar, and a token issued before it was put aside
LoggedOut == jar = {} /\ kept # {}
\* the cookie header that presents the token put aside
KeptCookies == {[name |-> CookieName, value |-> t] : t \in kept}

(***************************************************************************)
(* C12.  No server-side revocation: logout changes nothing the gate        *)
(* depends on, so a token issued before a logout and presented after it    *)
(* still verifies until its expiry, and while its identity is in the store *)
(* the gate calls next with that identity; from its expiry on it is        *)
(* refused with 401.                                                       *)
(***************************************************************************)
C12_Step(s) ==
    LET r == rq[s]
        q == rq'[s]
    IN  /\ LogoutArrives(s) =>
              /\ JWT_SECRET' = JWT_SECRET /\ users' = users /\ now' = now
              /\ \A t \in Held : Verifies(t)' <=> Verifies(t)
        /\ (GateArrives(s) /\ LoggedOut /\ q.cookies = KeptCookies) =>
              /\ (\A t \in kept : ~BadSignature(t) /\ ~Expired(t)) =>
                    /\ q.pc = "authMiddleware_findUnique"
                    /\ q.decoded = {t.payload : t \in kept}
              /\ (\E t \in kept : Expired(t)) => (q.pc = "done" /\ q.res.status = 401)
        /\ (GateLookupEnds(s) /\ LoggedOut /\ r.cookies = KeptCookies /\ q.error = {}
              /\ \E u \in users : u.id = LookedUp(s)) =>
              /\ q.nextCalled = 1 /\ q.res.status = 200
              /\ \A t \in kept : q.reqUser = Identity(t.payload.id)

C12_NoRevocation == [][\A s \in Slots : C12_Step(s)]_vars

\* after the logout the token put aside passed the gate, on a later day than its issue
C12_Witness ==
    \E s \in Slots :
        /\ LoggedOut
        /\ rq[s].kind = "check" /\ rq[s].pc = "done" /\ rq[s].cookies = KeptCookies
        /\ rq[s].nextCalled = 1 /\ rq[s].res.status = 200
        /\ \A t \in kept : now > t.payload.iat /\ rq[s].reqUser = Identity(t.payload.id)

\* the flags of a cookie's options that a browser matches on removal
Flags(options) ==
    [httpOnly |-> options.httpOnly, sameSite |-> options.sameSite, secure |-> options.secure]

(***************************************************************************)
(* C13.  The cookie logout clears has the name and the flags (http-only,   *)
(* same-site strict, secure exactly when not in development mode) of the   *)
(* cookie register and login set; register and login set it with the same  *)
(* attributes: those flags and a max-age of seven days.                    *)
(***************************************************************************)
C13_SameCookie ==
    \A s \in Slots :
        /\ \A c \in rq[s].res.cookies :
              /\ rq[s].kind \in {"register", "login"}
              /\ c.name = "jwt"
              /\ c.options = [httpOnly |-> TRUE, sameSite |-> "strict",
                              secure |-> (NODE_ENV # "development"),
                              maxAge |-> 1000 * 60 * 60 * 24 * ExpiresInDays]
        /\ \A d \in rq[s].res.cleared :
              /\ rq[s].kind = "logout"
              /\ d.name = "jwt"
              /\ DOMAIN d.options = {"httpOnly", "sameSite", "secure"}
              /\ d.options = [httpOnly |-> TRUE, sameSite |-> "strict",
                              secure |-> (NODE_ENV # "development")]
        /\ \A t \in Slots : \A c \in rq[s].res.cookies : \A d \in rq[t].res.cleared :
              d.name = c.name /\ d.options = Flags(c.options)
        /\ \A t \in Slots : \A c \in rq[s].res.cookies : \A e \in rq[t].res.cookies :
              e.name = c.name /\ e.options = c.options
        /\ rq[s].kind = "logout" => rq[s].res.cleared # {}

\* in development mode, a logout clears the cookie that the jar holds
C13_Witness ==
    \E s \in Slots :
        /\ NODE_ENV = "development"
        /\ rq[s].kind = "logout" /\ rq[s].pc = "done" /\ rq[s].res.cleared # {}
        /\ rq[s].cookies = JarCookies /\ jar # {}

\* a login has set the cookie in production mode
C13_WitnessLogin ==
    \E s \in Slots :
        /\ NODE_ENV = "production"
        /\ rq[s].kind = "login" /\ rq[s].res.cookies # {}

\* a handler runs in this step (the other steps leave every request as it is)
HandlerStep == rq' # rq

(***************************************************************************)
(* C14.  Frame: a step of a handler changes the user table only when it is *)
(* the create of a register request, and then by adding exactly one row,   *)
(* once per request; login, logout, check and the gate leave the table as  *)
(* it is; no step of a handler removes or alters a row, so every row stays *)
(* as it was created.                                                      *)
(***************************************************************************)
C14_Step ==
    HandlerStep =>
        /\ \A u \in users : u \in users'
        /\ users' # users =>
              \E s \in Slots : \E row \in users' :
                  /\ rq[s].kind = "register" /\ rq[s].pc = "register_create"
                  /\ rq'[s].pc = "done"
                  /\ row \notin users /\ users' = users \cup {row}
                  /\ row.email = rq[s].body.email
                  /\ \A t \in Slots \ {s} : rq'[t] = rq[t]
        /\ \A s \in Slots :
              (rq'[s] # rq[s] /\ rq'[s].kind \in {"login", "logout", "check"}) => users' = users
        /\ \A s \in Slots :
              (rq'[s] # rq[s] /\ rq[s].pc # "register_create") => users' = users

C14_Frame == [][C14_Step]_vars

\* two identities stand in the table as their 201 responses described them,
\* after a login for the first of them has succeeded
C14_Witness ==
    \E s \in Slots : \E g, h \in registered : \E u, v \in users :
        /\ g.user.id < h.user.id
        /\ UserView(u) = g.user /\ UserView(v) = h.user
        /\ rq[s].kind = "login" /\ rq[s].pc = "done" /\ rq[s].res.status = 200
        /\ rq[s].body.email = g.email

(***************************************************************************)
(* C15.  check responds 200, once, with the body {success, message, user}  *)
(* whose user is exactly the identity the gate attached to the request as  *)
(* req.user; it verifies nothing and looks nothing up: the calls of the    *)
(* request are the gate's one verify and one findUnique.  A gated request  *)
(* is answered 200 only through check.                                     *)
(***************************************************************************)
C15_CheckVerbatim ==
    \A s \in Slots :
        rq[s].kind = "check" =>
            /\ rq[s].nextCalled = 1 =>
                  /\ rq[s].pc = "done"
                  /\ rq[s].res.status = 200 /\ rq[s].res.sent = 1
                  /\ DOMAIN rq[s].res.body = {"success", "message", "user"}
                  /\ rq[s].res.body.success = TRUE
                  /\ rq[s].res.body.message = "user auth successfull"
                  /\ rq[s].reqUser = {rq[s].res.body.user}
                  /\ rq[s].calls = <<"verify", "findUnique">>
                  /\ rq[s].res.cookies = {} /\ rq[s].res.cleared = {}
            /\ rq[s].res.status = 200 => rq[s].nextCalled = 1

\* check answered with the identity of the second registration, as the gate
\* attached it
C15_Witness ==
    \E s \in Slots : \E g, h \in registered :
        /\ g.user.id < h.user.id
        /\ rq[s].kind = "check" /\ rq[s].pc = "done" /\ rq[s].res.status = 200
        /\ rq[s].reqUser = Identity(h.user.id)
        /\ rq[s].res.body.user \in rq[s].reqUser

(***************************************************************************)
(* C16.  With the signing secret absent from the configuration the process *)
(* fails at startup: the server never listens, and no register, login or   *)
(* gated request is handled without a secret.  (index.js calls app.listen  *)
(* without looking at JWT_SECRET, so the model does not satisfy this.)     *)
(***************************************************************************)
C16_StartupFatal ==
    JWT_SECRET = Undefined =>
        /\ ~listening
        /\ \A s \in Slots : rq[s].kind \notin {"register", "login", "check"}

\* without a secret the server listens, and a login with the right password for
\* a stored identity is answered 500 because jwt.sign throws
C16_Witness ==
    \E s \in Slots :
        /\ JWT_SECRET = Undefined /\ listening
        /\ rq[s].kind = "login" /\ rq[s].pc = "done"
        /\ rq[s].calls = <<"findUnique", "compare", "sign">>
        /\ rq[s].error = {NoSigningKey}
        /\ rq[s].res = Json(EmptyRes, 500, [error |-> "Error in logging in User"])

(***************************************************************************)
(* C17.  Every identity register creates has the role USER, whatever the   *)
(* body of the request holds (a role field included); no row of the table, *)
(* no user of a response and no identity the gate attaches ever has        *)
(* another role.                                                           *)
(***************************************************************************)
C17_RoleIsUser ==
    /\ \A u \in users : u.role = "USER"
    /\ \A g \in registered : g.user.role = "USER"
    /\ \A s \in Slots :
          /\ \A u \in rq[s].reqUser : u.role = "USER"
          /\ \A u \in rq[s].found : u.role = "USER"
          /\ (rq[s].kind \in {"register", "login", "check"} /\ rq[s].res.status \in {200, 201}) =>
                rq[s].res.body.user.role = "USER"

\* a register whose body asked for the role ADMIN was answered 201, and the row
\* it created is in the table
C17_Witness ==
    \E s \in Slots : \E u \in users :
        /\ rq[s].kind = "register" /\ rq[s].pc = "done" /\ rq[s].res.status = 201
        /\ rq[s].body.role = "ADMIN"
        /\ u.id = rq[s].res.body.user.id /\ u.email = rq[s].body.email

\* register request s ends in this step
RegisterEnds(s) == rq[s].kind = "register" /\ rq[s].pc # "done" /\ rq'[s].pc = "done"

(***************************************************************************)
(* C18.  register is all-or-nothing: the request adds a row to the table   *)
(* if and only if it responds 201; when it responds 400 or 500 the table   *)
(* is as it was before the request.  (create comes before jwt.sign in the  *)
(* handler, so a sign that throws leaves the row behind a 500 response:    *)
(* the model does not satisfy this.)                                       *)
(***************************************************************************)
C18_Step(s) ==
    LET r == rq[s]
        q == rq'[s]
    IN  /\ (r.kind = "register" /\ q # r /\ q.pc # "done") => users' = users
        /\ RegisterEnds(s) =>
              /\ users' # users <=> q.res.status = 201
              /\ q.res.status \in {400, 500} => users' = users

C18_AllOrNothing == [][\A s \in Slots : C18_Step(s)]_vars

\* a register was answered 500 and the row it created is in the table
C18_Witness ==
    \E s \in Slots : \E u \in users :
        /\ rq[s].kind = "register" /\ rq[s].pc = "done"
        /\ rq[s].res = Json(EmptyRes, 500, [error |-> "Error creating user"])
        /\ rq[s].calls = <<"findUnique", "hash", "create", "sign">>
        /\ u.email = rq[s].body.email /\ u.password \in rq[s].hashedPassword

\* no register was ever answered 201, and a register is refused because its
\* email is taken
C18_WitnessBlocked ==
    \E s \in Slots :
        /\ registered = {}
        /\ rq[s].kind = "register" /\ rq[s].pc = "done"
        /\ rq[s].res = Json(EmptyRes, 400, [error |-> "User already exists"])

\* with a signing secret in place the same statement holds
C18_WithSecret == [][JWT_SECRET # Undefined => \A s \in Slots : C18_Step(s)]_vars

\* request s sets the session cookie in this step: a token is issued
Issues(s) == rq[s].res.cookies = {} /\ rq'[s].res.cookies # {}
\* the tokens request s has put in cookies after this step
IssuedTokens(s) == {c.value : c \in rq'[s].res.cookies}

(***************************************************************************)
(* C19.  A token is signed into the session cookie only on the success     *)
(* path: by register in the step in which create returned the new row, for *)
(* the id of that row, with the response 201; by login after its lookup    *)
(* returned a row of the table and the password matched the hash of that   *)
(* row, for the id of that row, with the response 200.  No response with   *)
(* status 400, 401 or 500 sets the cookie.                                 *)
(***************************************************************************)
C19_Step(s) ==
    LET r == rq[s]
        q == rq'[s]
    IN  /\ Issues(s) =>
              /\ q.kind \in {"register", "login"} /\ q.pc = "done"
              /\ Cardinality(IssuedTokens(s)) = 1
              /\ q.kind = "register" =>
                    /\ r.pc = "register_create" /\ q.res.status = 201
                    /\ q.calls = <<"findUnique", "hash", "create", "sign">>
                    /\ \E row \in users' \ users :
                          /\ row.email = r.body.email
                          /\ \A t \in IssuedTokens(s) : t.payload.id = row.id
              /\ q.kind = "login" =>
                    /\ r.pc = "login_compare" /\ q.res.status = 200
                    /\ q.calls = <<"findUnique", "compare", "sign">>
                    /\ r.found # {}
                    /\ \A u \in r.found :
                          /\ u.email = r.body.email
                          /\ \E salt \in Salts :
                                u.password = bcrypt_hash(r.body.password, SaltRounds, salt)
                          /\ \A t \in IssuedTokens(s) : t.payload.id = u.id
        /\ LoginLookupEnds(s) => q.found \subseteq users
        /\ q.res.status \in {400, 401, 500} => q.res.cookies = {}
        /\ q.res.cookies # {} => q.res.status \in {200, 201}

C19_TokenOnSuccessOnly == [][\A s \in Slots : C19_Step(s)]_vars

\* the identity of every token issued in this step is in the table
IssuedIdInStore(s) ==
    Issues(s) => \A t \in IssuedTokens(s) : \E u \in users' : u.id = t.payload.id

\* C19 as it was stated: as above, and every token issued embeds the id of an
\* identity that is in the table at the moment of issue
C19_IssuedIdExists == [][\A s \in Slots : C19_Step(s) /\ IssuedIdInStore(s)]_vars

\* login has issued a token for a row that was removed from the table while the
\* password was being compared
C19_Witness ==
    \E s \in Slots : \E c \in rq[s].res.cookies :
        /\ rq[s].kind = "login" /\ rq[s].pc = "done" /\ rq[s].res.status = 200
        /\ \A u \in rq[s].found : u.id = c.value.payload.id
        /\ \A u \in users : u.id # c.value.payload.id

\* the calls a request of each kind can have made when it ends, in order
CallSequences(kind) ==
    CASE kind = "register" -> {<<"findUnique">>, <<"findUnique", "hash", "create">>,
                               <<"findUnique", "hash", "create", "sign">>}
      [] kind = "login" -> {<<"findUnique">>, <<"findUnique", "compare">>,
                            <<"findUnique", "compare", "sign">>}
      [] kind = "logout" -> {<<>>}
      [] kind = "check" -> {<<>>, <<"verify">>, <<"verify", "findUnique">>}
      [] OTHER -> {<<>>}

\* request s is in flight: it has arrived and has not ended
InFlight(s) == rq[s].pc \notin {"idle", "done"}
\* the store calls among the calls of request s
StoreCalls(s) == SelectSeq(rq[s].calls, LAMBDA c : c \in {"findUnique", "create"})

\* what holds of request s at every moment
C20_Outcome(s) ==
    LET r == rq[s]
    IN  /\ ~r.uncaught
        /\ InFlight(s) => (r.res.sent = 0 /\ r.nextCalled = 0)
        /\ r.pc = "done" =>
              /\ r.res.sent = 1
              /\ r.calls \in CallSequences(r.kind)
              /\ r.kind = "register" => (r.res.status \in {201, 400, 500} /\ r.nextCalled = 0)
              /\ r.kind = "login" => (r.res.status \in {200, 401, 500} /\ r.nextCalled = 0)
              /\ r.kind = "logout" => (r.res.status = 200 /\ r.nextCalled = 0)
              /\ r.kind = "check" =>
                    \/ r.nextCalled = 1 /\ r.res.status = 200
                    \/ r.nextCalled = 0 /\ r.res.status \in {401, 404, 500}
        /\ \A i, j \in 1..Len(StoreCalls(s)) : StoreCalls(s)[i] = StoreCalls(s)[j] => i = j

\* a step of request s makes one more call or ends the request, and an ended
\* request does nothing more
C20_Step(s) ==
    LET r == rq[s]
        q == rq'[s]
    IN  /\ (InFlight(s) /\ q # r) =>
              \/ q.pc = "done"
              \/ q.pc # r.pc /\ Len(q.calls) = Len(r.calls) + 1
        /\ (r.pc = "done" /\ q # r) => q = IdleReq

(***************************************************************************)
(* C20.  Every request reaches exactly one terminal outcome when its calls *)
(* return or throw: register, login, logout and check each send one        *)
(* response; the gate either sends one response (401, 404 or 500) or calls *)
(* next once, never both and never neither; no store call is made twice by *)
(* one request; a request in flight ends.                                  *)
(***************************************************************************)
C20_OneOutcome ==
    /\ [](\A s \in Slots : C20_Outcome(s))
    /\ [][\A s \in Slots : C20_Step(s)]_vars
    /\ \A s \in Slots : InFlight(s) ~> (rq[s].pc = "done")

\* a register that went through all its calls has ended with one response
C20_Witness ==
    \E s \in Slots :
        /\ rq[s].kind = "register" /\ rq[s].pc = "done"
        /\ rq[s].calls = <<"findUnique", "hash", "create", "sign">>
        /\ rq[s].res.sent = 1 /\ rq[s].res.status = 201

====
